---- MODULE Spec2Model ----
(***************************************************************************)
(* Model of the chat orchestration core of ai-support-widget                *)
(* (backend-nodejs): the POST /api/chat/message route with its limiter and  *)
(* validators, generateResponse of the OpenAI service, and the conversation *)
(* store behind saveConversation / getConversationHistory; then the GET    *)
(* /history and POST /feedback routes and the store's feedback and          *)
(* retention operations.                                                    *)
(*                                                                          *)
(* Strings are abstracted by their shape: a text is a record                *)
(*   [pre, core, post, tag]                                                 *)
(* standing for `pre` whitespace characters, `core` characters that start   *)
(* and end with a non-whitespace character, and `post` whitespace           *)
(* characters; `tag` names the content.  Session ids are abstracted by the  *)
(* parts the UUID regular expressions look at.                              *)
(*                                                                          *)
(* The widget (widget/src/ChatWindow.jsx, ChatBubble.jsx) is modelled on    *)
(* its own: its message list and its one request in flight.                 *)
(***************************************************************************)
EXTENDS Integers, Sequences, FiniteSets, TLC

VARIABLES
  apiKey,   \* process.env.OPENAI_API_KEY is set (fixed for the process)
  hits,     \* chatLimiter's memory store: client address -> hits in the window
  passed,   \* client address -> requests chatLimiter let through in the window
  store,    \* the conversations table, rows in creation order
  clock,    \* the createdAt the next created row gets
  req,      \* the in-flight POST /message handlers, one record per slot
  out,      \* the outcome of the latest GET /history, POST /feedback,
            \* updateConversationFeedback or cleanupOldConversations call
  widget    \* the ChatWindow component in a browser: its message list, its
            \* loading flag and its request in flight

vars == <<apiKey, hits, passed, store, clock, req, out, widget>>

----------------------------------------------------------------------------
(* Bounds of the model *)

\* rows a run may add to the conversations table
MaxTurns == 2
\* requests of one client modelled beyond the limiter's max in one window
HitsOverflow == 1

(* Program constants *)

\* chat.js:13  max: 10
LimiterMax == 10
\* chat.js:23  isLength({ min: 1, max: 1000 })
MessageMaxLen == 1000
\* conversationService.js:36  limit = 50
HistoryLimit == 50
\* openaiService.js:46  conversationHistory.slice(-10)
HistoryWindow == 10
\* Conversation.js:28  len: [1, 2000]
AiResponseMaxLen == 2000
\* openaiService.js:118  length of the fallback text
FallbackLen == 135

----------------------------------------------------------------------------
(* Texts *)

T(pre, core, post, tag) == [pre |-> pre, core |-> core, post |-> post, tag |-> tag]

\* the JavaScript value undefined, where a text may stand
Undefined == T(0, 0, 0, "undefined")

StrLen(t) == t.pre + t.core + t.post

\* String.prototype.trim as express-validator's .trim() sanitizer applies it
Trim(t) == T(0, t.core, 0, t.tag)

\* JavaScript truthiness of a string-or-undefined value
Truthy(t) == t.tag # "undefined" /\ StrLen(t) > 0

----------------------------------------------------------------------------
(* Session ids: hex says the value has the 8-4-4-4-12 hexadecimal shape,    *)
(* ver is the first digit of the third group, variant the first digit of    *)
(* the fourth group, rest names the remaining digits.                       *)

Uuid(hex, ver, variant, rest) ==
  [hex |-> hex, ver |-> ver, variant |-> variant, rest |-> rest]

NoSessionId == Uuid(FALSE, 0, 0, "undefined")

SessionA == Uuid(TRUE, 4, 8, "a")
\* a version-1 UUID
SessionV1 == Uuid(TRUE, 1, 8, "a")
\* not a UUID at all
SessionBad == Uuid(FALSE, 0, 0, "not-a-uuid")

\* the pattern without its version and variant digits
isValidUUIDAnyVersion(uuid) == uuid.hex

\* chat.js:187  /^[0-9a-f]{8}-[0-9a-f]{4}-4[0-9a-f]{3}-[89ab][0-9a-f]{3}-[0-9a-f]{12}$/i
isValidUUID(uuid) == uuid.hex /\ uuid.ver = 4 /\ uuid.variant \in 8..11

\* chat.js:27  .isUUID() without a version: validator's pattern "all",
\* /^[0-9A-F]{8}-[0-9A-F]{4}-[0-9A-F]{4}-[0-9A-F]{4}-[0-9A-F]{12}$/i
isUUID(uuid) == uuid.hex

\* the values Math.random() * 16 | 0 is drawn from for the variant digit
RandomNibbles == {6, 15}

\* the template with the y digit left as drawn
generateSessionIdRawVariant(r) == Uuid(TRUE, 4, r % 16, "gen")

\* chat.js:179  'xxxxxxxx-xxxx-4xxx-yxxx-xxxxxxxxxxxx', y -> (r & 0x3 | 0x8)
generateSessionId(r) == Uuid(TRUE, 4, (r % 4) + 8, "gen")

----------------------------------------------------------------------------
(* Request bodies *)

Ctx(kind, page, userAgent) == [kind |-> kind, page |-> page, userAgent |-> userAgent]

NoContext == Ctx("undefined", Undefined, Undefined)
EmptyContext == Ctx("object", Undefined, Undefined)

Body(message, sessionId, context) ==
  [message |-> message, sessionId |-> sessionId, context |-> context]

Page == T(0, 8, 0, "/pricing")
Agent == T(0, 7, 0, "Firefox")

Bodies ==
  { Body(T(0, 1, 0, "hi"), NoSessionId, Ctx("object", Page, Undefined)),
    Body(T(1, 2, 1, "hey"), SessionA, Ctx("object", Page, Agent)),
    Body(T(0, 1, 0, "hi"), SessionA, NoContext),
    Body(T(1, MessageMaxLen, 0, "long"), SessionV1, Ctx("object", T(0, 0, 0, ""), Agent)),
    Body(T(2, 0, 0, "blank"), SessionA, NoContext),
    Body(T(0, MessageMaxLen + 1, 0, "toolong"), NoSessionId, NoContext),
    Body(T(0, 1, 0, "hi"), SessionBad, NoContext),
    Body(T(0, 1, 0, "hi"), SessionA, Ctx("string", Undefined, Undefined)) }

\* the client addresses chatLimiter keeps a counter for
Clients == {"10.0.0.1", "10.0.0.2"}

\* the addresses requests come from
IPs == {"10.0.0.1"}

Reqs == {1}

\* the validators without the upper bound on the message length
validateChatMessageNoMax(body) ==
  /\ StrLen(Trim(body.message)) >= 1
  /\ (body.sessionId # NoSessionId => isUUID(body.sessionId))
  /\ (body.context.kind # "undefined" => body.context.kind = "object")

\* chat.js:20-33  validateChatMessage: TRUE when validationResult is empty
validateChatMessage(body) ==
  /\ StrLen(Trim(body.message)) >= 1
  /\ StrLen(Trim(body.message)) <= MessageMaxLen
  /\ (body.sessionId # NoSessionId => isUUID(body.sessionId))
  /\ (body.context.kind # "undefined" => body.context.kind = "object")

\* req.body after the sanitizers ran: message is trimmed in place
Sanitized(body) == [body EXCEPT !.message = Trim(body.message)]

----------------------------------------------------------------------------
(* The conversations table (models/Conversation.js) *)

Usage(p, c) == [prompt_tokens |-> p, completion_tokens |-> c, total_tokens |-> p + c]

ZeroUsage == [prompt_tokens |-> 0, completion_tokens |-> 0, total_tokens |-> 0]

\* a row of the table; rating 0 and feedback Undefined stand for NULL
Turn(sessionId, userMessage, aiResponse, userIp, context, model, tokens, createdAt) ==
  [sessionId |-> sessionId, userMessage |-> userMessage, aiResponse |-> aiResponse,
   userIp |-> userIp, context |-> context, model |-> model, tokens |-> tokens,
   rating |-> 0, feedback |-> Undefined, createdAt |-> createdAt]

\* the validators of userMessage alone
ModelValidatesUserMessage(turn) ==
  /\ turn.userMessage.tag # "undefined"
  /\ StrLen(turn.userMessage) >= 1
  /\ StrLen(turn.userMessage) <= MessageMaxLen

\* Conversation.js:16-31  allowNull: false and validate.len of the two texts
ModelValidates(turn) ==
  /\ turn.userMessage.tag # "undefined"
  /\ StrLen(turn.userMessage) >= 1
  /\ StrLen(turn.userMessage) <= MessageMaxLen
  /\ turn.aiResponse.tag # "undefined"
  /\ StrLen(turn.aiResponse) >= 1
  /\ StrLen(turn.aiResponse) <= AiResponseMaxLen

Min(a, b) == IF a < b THEN a ELSE b

\* descending order
Newer(a, b) == a.createdAt > b.createdAt

\* conversationService.js:39  order: [['createdAt', 'ASC']]: row a comes
\* before row b
Older(a, b) == a.createdAt < b.createdAt

\* ORDER BY of the rows: the row at place i is the one that i - 1 rows come
\* before (rows that compare equal keep their order)
OrderByCreatedAt(rows) ==
  LET n == Len(rows)
      before == [j \in 1..n |->
                   Cardinality({k \in 1..n : \/ Older(rows[k], rows[j])
                                              \/ /\ ~Older(rows[j], rows[k])
                                                 /\ k < j})]
  IN  IF before = <<>> THEN <<>>
      ELSE [i \in 1..n |-> rows[CHOOSE j \in 1..n : before[j] = i - 1]]

\* conversationService.js:38-40  where: { sessionId }, order: [['createdAt',
\* 'ASC']]: the rows of one session, oldest first
SessionRows(rows, sessionId) ==
  OrderByCreatedAt(SelectSeq(rows, LAMBDA t : t.sessionId = sessionId))

HistoryEntry(conv) ==
  [userMessage |-> conv.userMessage, aiResponse |-> conv.aiResponse,
   timestamp |-> conv.createdAt, model |-> conv.model, tokens |-> conv.tokens]

\* conversationService.js:36-57  findAll where sessionId, order createdAt ASC,
\* limit; then map
getConversationHistory(rows, sessionId, limit) ==
  LET found == SessionRows(rows, sessionId)
      conversations == SubSeq(found, 1, Min(limit, Len(found)))
  IN  [i \in 1..Len(conversations) |-> HistoryEntry(conversations[i])]

----------------------------------------------------------------------------
(* services/openaiService.js *)

SYSTEM_PROMPT == T(0, 722, 0, "SYSTEM_PROMPT")

Msg(role, content) == [role |-> role, content |-> content]

\* `User is currently on page: ${context.page}`
PageNote(page) == T(0, 27 + StrLen(page), 0, "page: " \o page.tag)

\* `User's browser: ${context.userAgent}`
AgentNote(userAgent) == T(0, 16 + StrLen(userAgent), 0, "browser: " \o userAgent.tag)

\* the whole history, without the slice
RecentHistoryUnsliced(conversationHistory) == conversationHistory

\* openaiService.js:46  conversationHistory.slice(-10)
RecentHistory(conversationHistory) ==
  LET n == Len(conversationHistory)
  IN  SubSeq(conversationHistory, (IF n > HistoryWindow THEN n - HistoryWindow ELSE 0) + 1, n)

\* openaiService.js:47-52  two messages per history entry
HistoryMessages(recentHistory) ==
  [i \in 1..(2 * Len(recentHistory)) |->
     IF i % 2 = 1
       THEN Msg("user", recentHistory[(i + 1) \div 2].userMessage)
       ELSE Msg("assistant", recentHistory[i \div 2].aiResponse)]

\* the composer with the context notes pushed before the new user message
ComposeMessagesContextFirst(userMessage, conversationHistory, context) ==
  <<Msg("system", SYSTEM_PROMPT)>>
    \o HistoryMessages(RecentHistory(conversationHistory))
    \o (IF Truthy(context.page) THEN <<Msg("system", PageNote(context.page))>> ELSE <<>>)
    \o (IF Truthy(context.userAgent)
          THEN <<Msg("system", AgentNote(context.userAgent))>> ELSE <<>>)
    \o <<Msg("user", userMessage)>>

\* openaiService.js:40-70  the messages array handed to the provider
ComposeMessages(userMessage, conversationHistory, context) ==
  <<Msg("system", SYSTEM_PROMPT)>>
    \o HistoryMessages(RecentHistory(conversationHistory))
    \o <<Msg("user", userMessage)>>
    \o (IF Truthy(context.page) THEN <<Msg("system", PageNote(context.page))>> ELSE <<>>)
    \o (IF Truthy(context.userAgent)
          THEN <<Msg("system", AgentNote(context.userAgent))>> ELSE <<>>)

AiResponse(text, model, usage) == [text |-> text, model |-> model, usage |-> usage]

NoResponse == AiResponse(Undefined, "", ZeroUsage)

\* openaiService.js:117-125
FallbackResponse == AiResponse(T(0, FallbackLen, 0, "apology"), "fallback", ZeroUsage)

\* an Error object: its message and its code property
Err(message, code) == [message |-> message, code |-> code]

NoError == Err("", "")

\* what the provider call can fail with
ProviderErrorCodes ==
  {"insufficient_quota", "rate_limit_exceeded", "invalid_api_key", "server_error"}

\* lengths of the completion text the provider can answer with
ReplyLens == {0, 42, AiResponseMaxLen + 1}

\* what generateResponse ends with: a returned value or a thrown Error
Returns(value) == [kind |-> "return", value |-> value, error |-> NoError]
Throws(error) == [kind |-> "throw", value |-> NoResponse, error |-> error]
NotEntered == [kind |-> "none", value |-> NoResponse, error |-> NoError]

\* the catch block without its fallback: every failure is rethrown
GenerateCatchRethrows(error) == Throws(Err("OpenAI API error", "undefined"))

\* openaiService.js:100-126  the catch block of generateResponse
GenerateCatch(error) ==
  IF error.code = "insufficient_quota"
    THEN Throws(Err("OpenAI API quota exceeded", "undefined"))
  ELSE IF error.code = "rate_limit_exceeded"
    THEN Throws(Err("OpenAI API rate limit exceeded", "undefined"))
  ELSE IF error.code = "invalid_api_key"
    THEN Throws(Err("Invalid OpenAI API key", "undefined"))
  ELSE Returns(FallbackResponse)

\* openaiService.js:36-38  the throw inside the try block lands in the catch
NotConfigured == GenerateCatch(Err("OpenAI API key not configured", "undefined"))

\* chat.js:87-109  the status the route's catch block answers with
ChatErrorStatus(error) ==
  IF error.code = "insufficient_quota" THEN 503
  ELSE IF error.code = "rate_limit_exceeded" THEN 429
  ELSE 500

----------------------------------------------------------------------------
(* routes/chat.js: POST /message *)

\* what res.json sends with a 200 (chat.js:76-85)
Reply(text, sessionId, model, usage) ==
  [response |-> text, sessionId |-> sessionId, model |-> model, usage |-> usage]

NoReply == Reply(Undefined, NoSessionId, "", ZeroUsage)

\* a handler slot.  pc is the await the handler is suspended at; body, ip,
\* conversationHistory, aiResponse, sessionId are the handler's locals;
\* recentHistory and messages are generateResponse's locals and generated is
\* what generateResponse ended with; status and reply are the response sent.
\* limited, providerError, historyFetches, providerCalls, saveAttempts,
\* saveFailed, created and turnAt record what the request did; totalHits is
\* the count the limiter's store returned and retried the number of provider
\* requests the provider client repeated, where the limiter and the client
\* are taken step by step.
IdleReq ==
  [pc |-> "idle", ip |-> "", body |-> Body(Undefined, NoSessionId, NoContext),
   conversationHistory |-> <<>>, recentHistory |-> <<>>, messages |-> <<>>,
   generated |-> NotEntered, aiResponse |-> NoResponse, sessionId |-> NoSessionId,
   status |-> 0, reply |-> NoReply,
   limited |-> FALSE, providerError |-> "none", historyFetches |-> 0,
   providerCalls |-> 0, saveAttempts |-> 0, saveFailed |-> FALSE,
   created |-> 0, turnAt |-> 0, totalHits |-> 0, retried |-> 0]

\* the limiter with its comparison off by one
LimiterBlocksOffByOne(totalHits) == totalHits > LimiterMax + 1

\* chat.js:11-17  express-rate-limit blocks a request once the client's hits
\* in the window exceed max
LimiterBlocks(totalHits) == totalHits > LimiterMax

\* the handler stops without sending an answer
FailUnanswered(slot, status) == [slot EXCEPT !.pc = "hung"]

\* the handler answers with an error status and ends
Fail(slot, status) == [slot EXCEPT !.pc = "done", !.status = status]

\* chat.js:59-73  generateResponse returned aiResponse: conversationData is
\* built (a session id generated when the request named none) and the
\* handler awaits saveConversation
ToSave(slot, aiResponse, nibble) ==
  [slot EXCEPT !.pc = "save", !.aiResponse = aiResponse,
               !.sessionId = IF slot.body.sessionId # NoSessionId
                               THEN slot.body.sessionId
                               ELSE generateSessionId(nibble)]

\* what the handler does with the end of generateResponse: a thrown Error
\* goes to the route's catch block, a returned value to conversationData
AfterGenerate(slot, end, nibble) ==
  IF end.kind = "throw"
    THEN Fail([slot EXCEPT !.generated = end], ChatErrorStatus(end.error))
    ELSE ToSave([slot EXCEPT !.generated = end], end.value, nibble)

\* chat.js:59, openaiService.js:34-72  generateResponse entered: without a key
\* it ends at once with what its catch block makes of the configuration
\* error; with a key it builds the messages and awaits the provider
EnterGenerate(slot, nibble) ==
  IF ~apiKey
    THEN AfterGenerate(slot, NotConfigured, nibble)
    ELSE [slot EXCEPT
            !.pc = "provider",
            !.recentHistory = RecentHistory(slot.conversationHistory),
            !.messages = ComposeMessages(slot.body.message, slot.conversationHistory,
                                         IF slot.body.context.kind = "undefined"
                                           THEN EmptyContext ELSE slot.body.context)]

\* chat.js:62-71, conversationService.js:12-20  the row Conversation.create
\* is asked to insert
ConversationData(slot) ==
  Turn(slot.sessionId, slot.body.message, slot.aiResponse.text, slot.ip,
       IF slot.body.context.kind = "undefined" THEN EmptyContext ELSE slot.body.context,
       slot.aiResponse.model, slot.aiResponse.usage, clock)

\* a handler that swallows the failed save and answers 200 all the same
SaveThrowsBestEffort(slot) ==
  [slot EXCEPT !.pc = "done", !.status = 200, !.saveFailed = TRUE,
               !.reply = Reply(slot.aiResponse.text, slot.sessionId,
                               slot.aiResponse.model, slot.aiResponse.usage)]

\* conversationService.js:24-27, chat.js:73, 87-109  Conversation.create
\* failed: saveConversation rethrows and the route's catch block answers
SaveThrows(slot) ==
  Fail([slot EXCEPT !.saveFailed = TRUE], ChatErrorStatus(Err("SequelizeError", "undefined")))

\* no chat window is open
ClosedWidget ==
  [messages |-> <<>>, isLoading |-> FALSE, inFlight |-> FALSE, seen |-> 0]

\* no call of the history route, the feedback route or the store's feedback
\* and retention operations has been made
NoAnswer ==
  [op |-> "none", pc |-> "done", status |-> 0, sessionId |-> NoSessionId,
   messages |-> <<>>, count |-> 0, queried |-> FALSE, error |-> "none",
   returned |-> 0]

Init ==
  /\ apiKey \in BOOLEAN
  /\ hits = [ip \in Clients |-> 0]
  /\ passed = [ip \in Clients |-> 0]
  /\ store = <<>>
  /\ clock = 1
  /\ req = [r \in Reqs |-> IdleReq]
  /\ out = NoAnswer
  /\ widget = ClosedWidget

\* the limiter behind the validators: a request that fails validation goes
\* on to its 400 uncounted
ChatLimiterAfterValidation(r, ips, bodies) ==
  /\ req[r].pc \in {"idle", "done"}
  /\ \E ip \in ips, body \in bodies :
       \/ /\ ~validateChatMessage(body)
          /\ req' = [req EXCEPT ![r] =
               [IdleReq EXCEPT !.pc = "validate", !.ip = ip, !.body = body]]
          /\ UNCHANGED <<hits, passed>>
       \/ /\ validateChatMessage(body)
          /\ hits[ip] < LimiterMax + HitsOverflow
          /\ hits' = [hits EXCEPT ![ip] = @ + 1]
          /\ \/ /\ LimiterBlocks(hits'[ip])
                /\ req' = [req EXCEPT ![r] =
                     [IdleReq EXCEPT !.pc = "done", !.ip = ip, !.body = body,
                                     !.status = 429, !.limited = TRUE]]
                /\ UNCHANGED passed
             \/ /\ ~LimiterBlocks(hits'[ip])
                /\ req' = [req EXCEPT ![r] =
                     [IdleReq EXCEPT !.pc = "validate", !.ip = ip, !.body = body]]
                /\ passed' = [passed EXCEPT ![ip] = @ + 1]
  /\ UNCHANGED <<apiKey, store, clock, out, widget>>

\* a request arrives and passes or fails chatLimiter (chat.js:36, 11-17)
ChatLimiter(r, ips, bodies) ==
  /\ req[r].pc \in {"idle", "done"}
  /\ \E ip \in ips, body \in bodies :
       /\ hits[ip] < LimiterMax + HitsOverflow
       /\ hits' = [hits EXCEPT ![ip] = @ + 1]
       /\ \/ /\ LimiterBlocks(hits'[ip])
             /\ req' = [req EXCEPT ![r] =
                  [IdleReq EXCEPT !.pc = "done", !.ip = ip, !.body = body,
                                  !.status = 429, !.limited = TRUE]]
             /\ UNCHANGED passed
          \/ /\ ~LimiterBlocks(hits'[ip])
             /\ req' = [req EXCEPT ![r] =
                  [IdleReq EXCEPT !.pc = "validate", !.ip = ip, !.body = body]]
             /\ passed' = [passed EXCEPT ![ip] = @ + 1]
  /\ UNCHANGED <<apiKey, store, clock, out, widget>>

\* the limiter's window of one client ends (chat.js:12)
WindowReset(ip) ==
  /\ hits[ip] > 0
  /\ hits' = [hits EXCEPT ![ip] = 0]
  /\ passed' = [passed EXCEPT ![ip] = 0]
  /\ UNCHANGED <<apiKey, store, clock, req, out, widget>>

\* chat.js:36-59  the validators run, then the handler up to its first await
ValidateChatMessage(r) ==
  /\ req[r].pc = "validate"
  /\ \/ /\ ~validateChatMessage(req[r].body)
        /\ req' = [req EXCEPT ![r] = Fail(@, 400)]
     \/ /\ validateChatMessage(req[r].body)
        /\ LET slot == [req[r] EXCEPT !.body = Sanitized(@)]
           IN  \/ /\ slot.body.sessionId # NoSessionId
                  /\ req' = [req EXCEPT ![r] = [slot EXCEPT !.pc = "history"]]
               \/ /\ slot.body.sessionId = NoSessionId
                  /\ \E nibble \in RandomNibbles :
                       req' = [req EXCEPT ![r] = EnterGenerate(slot, nibble)]
  /\ UNCHANGED <<apiKey, hits, passed, store, clock, out, widget>>

\* chat.js:55  await getConversationHistory(sessionId) returns or throws
GetConversationHistory(r) ==
  /\ req[r].pc = "history"
  /\ LET slot == [req[r] EXCEPT !.historyFetches = @ + 1]
     IN  \/ \E nibble \in RandomNibbles :
              req' = [req EXCEPT ![r] =
                EnterGenerate([slot EXCEPT !.conversationHistory =
                  getConversationHistory(store, slot.body.sessionId, HistoryLimit)], nibble)]
         \/ req' = [req EXCEPT ![r] = Fail(slot, ChatErrorStatus(Err("SequelizeError", "undefined")))]
  /\ UNCHANGED <<apiKey, hits, passed, store, clock, out, widget>>

\* openaiService.js:75-126  the provider call returns or throws, and
\* generateResponse ends
OpenAICompletion(r) ==
  /\ req[r].pc = "provider"
  /\ LET slot == [req[r] EXCEPT !.providerCalls = @ + 1]
     IN  \/ \E len \in ReplyLens, nibble \in RandomNibbles :
              req' = [req EXCEPT ![r] =
                AfterGenerate(slot,
                              Returns(AiResponse(T(0, len, 0, "completion"),
                                                 "gpt-3.5-turbo", Usage(30, 12))),
                              nibble)]
         \/ \E code \in ProviderErrorCodes, nibble \in RandomNibbles :
              req' = [req EXCEPT ![r] =
                AfterGenerate([slot EXCEPT !.providerError = code],
                              GenerateCatch(Err("provider", code)), nibble)]
  /\ UNCHANGED <<apiKey, hits, passed, store, clock, out, widget>>

\* the row replaces the session's latest row where the session has one
ConversationCreateUpsert(rows, turn) ==
  LET own == {i \in 1..Len(rows) : rows[i].sessionId = turn.sessionId}
  IN  IF own = {} THEN Append(rows, turn)
      ELSE [rows EXCEPT ![CHOOSE i \in own : \A j \in own : j <= i] = turn]

\* conversationService.js:12-20  Conversation.create: one INSERT of a new row
ConversationCreate(rows, turn) == Append(rows, turn)

\* chat.js:73-85  await saveConversation(conversationData), then res.json;
\* conversationService.js:10-28  Conversation.create or the rethrown error
SaveConversation(r) ==
  /\ req[r].pc = "save"
  /\ LET slot == [req[r] EXCEPT !.saveAttempts = @ + 1]
         turn == ConversationData(slot)
     IN  \/ /\ ModelValidates(turn)
            /\ clock <= MaxTurns
            /\ store' = ConversationCreate(store, turn)
            /\ clock' = clock + 1
            /\ req' = [req EXCEPT ![r] =
                 [slot EXCEPT !.pc = "done", !.status = 200,
                              !.created = @ + 1, !.turnAt = turn.createdAt,
                              !.reply = Reply(slot.aiResponse.text, slot.sessionId,
                                              slot.aiResponse.model, slot.aiResponse.usage)]]
         \/ /\ req' = [req EXCEPT ![r] = SaveThrows(slot)]
            /\ UNCHANGED <<store, clock>>
  /\ UNCHANGED <<apiKey, hits, passed, out, widget>>

Next ==
  \/ \E r \in Reqs : ChatLimiter(r, IPs, Bodies)
  \/ \E ip \in Clients : WindowReset(ip)
  \/ \E r \in Reqs : ValidateChatMessage(r)
  \/ \E r \in Reqs : GetConversationHistory(r)
  \/ \E r \in Reqs : OpenAICompletion(r)
  \/ \E r \in Reqs : SaveConversation(r)

Spec == Init /\ [][Next]_vars

----------------------------------------------------------------------------
(* A long-lived session: the table already holds the rows of earlier        *)
(* requests of session SessionA when the process starts.                    *)

\* rows of SessionA in the table at start; createdAt 1 - n .. 0
SeedSizes == {HistoryLimit - 1, HistoryLimit, HistoryLimit + 1}

SeedRows(n) ==
  [i \in 1..n |->
     Turn(SessionA, T(0, 1, 0, "hi"), T(0, 42, 0, "completion"), "10.0.0.1",
          EmptyContext, "gpt-3.5-turbo", Usage(30, 12), i - n)]

LongBodies ==
  { Body(T(1, 2, 1, "hey"), SessionA, Ctx("object", Page, Agent)),
    Body(T(2, 0, 0, "blank"), NoSessionId, NoContext) }

InitLong ==
  /\ apiKey \in BOOLEAN
  /\ hits = [ip \in Clients |-> 0]
  /\ passed = [ip \in Clients |-> 0]
  /\ \E n \in SeedSizes : store = SeedRows(n)
  /\ clock = 1
  /\ req = [r \in Reqs |-> IdleReq]
  /\ out = NoAnswer
  /\ widget = ClosedWidget

NextLong ==
  \/ \E r \in Reqs : ChatLimiter(r, IPs, LongBodies)
  \/ \E ip \in Clients : WindowReset(ip)
  \/ \E r \in Reqs : ValidateChatMessage(r)
  \/ \E r \in Reqs : GetConversationHistory(r)
  \/ \E r \in Reqs : OpenAICompletion(r)
  \/ \E r \in Reqs : SaveConversation(r)

SpecLong == InitLong /\ [][NextLong]_vars

----------------------------------------------------------------------------
(* Two clients at the limiter *)

LimiterBodies ==
  { Body(T(1, 2, 1, "hey"), SessionA, NoContext),
    Body(T(2, 0, 0, "blank"), SessionA, NoContext) }

NextLimiter ==
  \/ \E r \in Reqs : ChatLimiter(r, Clients, LimiterBodies)
  \/ \E ip \in Clients : WindowReset(ip)
  \/ \E r \in Reqs : ValidateChatMessage(r)
  \/ \E r \in Reqs : GetConversationHistory(r)
  \/ \E r \in Reqs : OpenAICompletion(r)
  \/ \E r \in Reqs : SaveConversation(r)

SpecLimiter == Init /\ [][NextLimiter]_vars

----------------------------------------------------------------------------
(* routes/chat.js: GET /history/:sessionId and POST /feedback.              *)
(* services/conversationService.js: updateConversationFeedback and          *)
(* cleanupOldConversations.  models/Conversation.js: rating and feedback.   *)

\* Conversation.js:57-58  validate: { min: 1, max: 5 }
RatingMin == 1
RatingMax == 5
\* Conversation.js:66  len: [0, 500]
FeedbackMaxLen == 500

\* the outcome record of a call: an HTTP status for the two routes, an error
\* name for a call of the service that threw
Answer(op, status, sessionId) ==
  [NoAnswer EXCEPT !.op = op, !.status = status, !.sessionId = sessionId]

FeedbackBody(sessionId, rating, feedback) ==
  [sessionId |-> sessionId, rating |-> rating, feedback |-> feedback]

\* chat.js:146-148  sessionId isUUID(), rating isInt 1..5, feedback optional
\* string of at most 500 characters
validateFeedback(body) ==
  /\ isUUID(body.sessionId)
  /\ body.rating \in 1..5
  /\ body.feedback.tag # "undefined" => StrLen(body.feedback) <= 500

\* conversationService.js:146-147  const updateData = { rating };
\* if (feedback) updateData.feedback = feedback;  (feedback Undefined: no key)
UpdateData(rating, feedback) ==
  [rating |-> rating, feedback |-> IF Truthy(feedback) THEN feedback ELSE Undefined]

\* Model.update without validation of the values
UpdateValidatesNothing(updateData) == TRUE

\* Conversation.js:53-69  Model.update validates the values it is given
\* against the validators of their fields before it runs the statement
UpdateValidates(updateData) ==
  /\ updateData.rating >= RatingMin
  /\ updateData.rating <= RatingMax
  /\ updateData.feedback # Undefined => StrLen(updateData.feedback) <= FeedbackMaxLen

\* an update that also stamps the model column of the rows it rates
ConversationUpdateStamps(rows, sessionId, updateData) ==
  [i \in 1..Len(rows) |->
     IF rows[i].sessionId = sessionId
     THEN [rows[i] EXCEPT !.rating = updateData.rating, !.model = "rated"]
     ELSE rows[i]]

\* conversationService.js:149-153  Conversation.update(updateData,
\* { where: { sessionId }, order, limit: 1 }) on the postgres dialect
\* (config/database.js:12): the dialect has no LIMIT on UPDATE and update
\* takes no order, so the statement is UPDATE ... SET ... WHERE "sessionId" = ?
ConversationUpdate(rows, sessionId, updateData) ==
  [i \in 1..Len(rows) |->
     IF rows[i].sessionId = sessionId
     THEN [rows[i] EXCEPT !.rating = updateData.rating,
                          !.feedback = IF updateData.feedback # Undefined
                                       THEN updateData.feedback ELSE @]
     ELSE rows[i]]

\* a destroy that also takes the rows created at the cutoff
ConversationDestroyInclusive(rows, cutoffDate) ==
  SelectSeq(rows, LAMBDA t : ~(t.createdAt <= cutoffDate))

\* conversationService.js:182-188  Conversation.destroy where createdAt < cutoffDate
ConversationDestroy(rows, cutoffDate) ==
  SelectSeq(rows, LAMBDA t : ~(t.createdAt < cutoffDate))

\* session ids the history route is called with: the two sessions chat
\* requests name, with or without rows in the table at the time, and a
\* version-1 id
SessionB == Uuid(TRUE, 4, 11, "b")
StoreSessions == {SessionA, SessionB, SessionV1}

\* ratings and feedback texts the feedback operation is called with
Ratings == {RatingMax, RatingMax + 1}
Feedbacks ==
  {Undefined, T(0, FeedbackMaxLen, 0, "thanks"), T(0, FeedbackMaxLen + 1, 0, "thanks")}

\* sessions the feedback operation is called for
RatedSessions == {SessionA, SessionB}

\* bodies POST /feedback is called with: valid ones without and with a
\* feedback text, one of a version-1 session id, one with the rating out of
\* range and one with the feedback text too long
FeedbackBodies ==
  { FeedbackBody(SessionA, 5, Undefined),
    FeedbackBody(SessionB, 1, T(0, 500, 0, "thanks")),
    FeedbackBody(SessionV1, 5, Undefined),
    FeedbackBody(SessionA, 6, Undefined),
    FeedbackBody(SessionB, 5, T(0, 501, 0, "thanks")) }

\* retention ages cleanupOldConversations is called with, in units of the
\* time between two row creations
CleanupAges == {0, 1, 90}

\* chat.js:113-142  GET /history/:sessionId
HistoryRoute(sessionId) ==
  /\ out.pc = "done"
  /\ \/ /\ ~isValidUUID(sessionId)
        /\ out' = Answer("history", 400, sessionId)
     \/ /\ isValidUUID(sessionId)
        /\ LET history == getConversationHistory(store, sessionId, HistoryLimit)
           IN  out' = [Answer("history", 200, sessionId) EXCEPT
                         !.queried = TRUE, !.messages = history,
                         !.count = Len(history)]
     \/ /\ isValidUUID(sessionId)
        /\ out' = [Answer("history", 500, sessionId) EXCEPT
                     !.queried = TRUE, !.error = "database"]
  /\ UNCHANGED <<apiKey, hits, passed, store, clock, req, widget>>

\* chat.js:145-176  POST /feedback: the validators, then the handler, which
\* logs the feedback and answers
FeedbackRoute(body) ==
  /\ out.pc = "done"
  /\ \/ /\ ~validateFeedback(body)
        /\ out' = Answer("feedback", 400, body.sessionId)
     \/ /\ validateFeedback(body)
        /\ out' = Answer("feedback", 200, body.sessionId)
  /\ UNCHANGED <<apiKey, hits, passed, store, clock, req, widget>>

\* the update's count is not looked at
AfterUpdateUnchecked(call, updatedCount) ==
  [call EXCEPT !.pc = "find", !.count = updatedCount]

\* conversationService.js:155-157  if (updatedCount === 0) throw new
\* Error('Conversation not found'); else on to the findOne
AfterUpdate(call, updatedCount) ==
  IF updatedCount = 0
  THEN [call EXCEPT !.error = "Conversation not found"]
  ELSE [call EXCEPT !.pc = "find", !.count = updatedCount]

\* conversationService.js:144-157  updateConversationFeedback up to the end
\* of its update statement: the values fail validation, the statement fails,
\* or it runs and no row or some rows matched
UpdateConversationFeedback(sessionId, rating, feedback) ==
  /\ out.pc = "done"
  /\ LET updateData == UpdateData(rating, feedback)
         call == Answer("update", 0, sessionId)
         updatedCount == Len(SessionRows(store, sessionId))
     IN  \/ /\ ~UpdateValidates(updateData)
            /\ out' = [call EXCEPT !.error = "validation"]
            /\ UNCHANGED store
         \/ /\ UpdateValidates(updateData)
            /\ out' = [call EXCEPT !.queried = TRUE, !.error = "database"]
            /\ UNCHANGED store
         \/ /\ UpdateValidates(updateData)
            /\ isUUID(sessionId)
            /\ store' = ConversationUpdate(store, sessionId, updateData)
            /\ out' = AfterUpdate([call EXCEPT !.queried = TRUE], updatedCount)
  /\ UNCHANGED <<apiKey, hits, passed, clock, req, widget>>

\* conversationService.js:159-165  findOne of the session's latest row, the
\* value updateConversationFeedback returns (createdAt stands for the row)
FindUpdatedConversation ==
  /\ out.op = "update"
  /\ out.pc = "find"
  /\ \/ LET found == SessionRows(store, out.sessionId)
        IN  out' = [out EXCEPT !.pc = "done",
                      !.returned = IF found = <<>> THEN 0
                                   ELSE found[Len(found)].createdAt]
     \/ out' = [out EXCEPT !.pc = "done", !.error = "database"]
  /\ UNCHANGED <<apiKey, hits, passed, store, clock, req, widget>>

\* conversationService.js:177-196  cleanupOldConversations(daysOld): now is
\* the clock, the cutoff daysOld before it
CleanupOldConversations(daysOld) ==
  /\ out.pc = "done"
  /\ LET cutoffDate == clock - daysOld
         kept == ConversationDestroy(store, cutoffDate)
     IN  \/ /\ store' = kept
            /\ out' = [Answer("cleanup", 0, NoSessionId) EXCEPT
                         !.queried = TRUE, !.count = Len(store) - Len(kept)]
         \/ /\ out' = [Answer("cleanup", 0, NoSessionId) EXCEPT
                         !.queried = TRUE, !.error = "database"]
            /\ UNCHANGED store
  /\ UNCHANGED <<apiKey, hits, passed, clock, req, widget>>

\* chat requests of the store specification, of two sessions
StoreBodies ==
  { Body(T(1, 2, 1, "hey"), SessionA, NoContext),
    Body(T(0, 2, 0, "hey"), SessionB, NoContext) }

\* the client's window already counts requests (answered 400, say): the
\* limiter lets through as many more as the table may get rows
StoreStartHits == LimiterMax - MaxTurns

\* the process runs without a provider key, so generateResponse ends in its
\* fallback without a provider call
InitStore ==
  /\ apiKey = FALSE
  /\ hits = [ip \in Clients |-> IF ip \in IPs THEN StoreStartHits ELSE 0]
  /\ passed = [ip \in Clients |-> IF ip \in IPs THEN StoreStartHits ELSE 0]
  /\ store = <<>>
  /\ clock = 1
  /\ req = [r \in Reqs |-> IdleReq]
  /\ out = NoAnswer
  /\ widget = ClosedWidget

NextStore ==
  \/ \E r \in Reqs : ChatLimiter(r, IPs, StoreBodies)
  \/ \E r \in Reqs : ValidateChatMessage(r)
  \/ \E r \in Reqs : GetConversationHistory(r)
  \/ \E r \in Reqs : SaveConversation(r)
  \/ \E sessionId \in StoreSessions : HistoryRoute(sessionId)
  \/ \E body \in FeedbackBodies : FeedbackRoute(body)
  \/ \E sessionId \in RatedSessions, rating \in Ratings, feedback \in Feedbacks :
       UpdateConversationFeedback(sessionId, rating, feedback)
  \/ FindUpdatedConversation
  \/ \E daysOld \in CleanupAges : CleanupOldConversations(daysOld)

SpecStore == InitStore /\ [][NextStore]_vars

----------------------------------------------------------------------------
(* Concurrent requests: two handlers in flight at once.  The limiter's      *)
(* middleware is taken step by step here: it awaits before it asks its      *)
(* store to count the request, and decides on the count the store returned. *)
(* With one handler in flight (the specifications above) nothing can come   *)
(* between these steps, and ChatLimiter takes them at once.                 *)

ConcReqs == {1, 2}

\* two requests of one client and one session, with different messages
ConcBodies ==
  { Body(T(1, 2, 1, "hey"), SessionA, NoContext),
    Body(T(0, 3, 0, "yo"), SessionA, NoContext) }

\* a store that drops the increment
MemoryStoreIncrementLost(counters, key) == counters

\* chat.js:11-17  the limiter's default memory store counts a hit of the key:
\* one synchronous read-and-write of its counter
MemoryStoreIncrement(counters, key) == [counters EXCEPT ![key] = @ + 1]

\* requests of a client that arrived and are not counted yet
Uncounted(ip) == {r \in DOMAIN req : req[r].pc = "limiter" /\ req[r].ip = ip}

\* chat.js:36  a request enters chatLimiter
LimiterArrive(r, ips, bodies) ==
  /\ req[r].pc \in {"idle", "done"}
  /\ \E ip \in ips, body \in bodies :
       /\ hits[ip] + Cardinality(Uncounted(ip)) < LimiterMax + HitsOverflow
       /\ req' = [req EXCEPT ![r] =
            [IdleReq EXCEPT !.pc = "limiter", !.ip = ip, !.body = body]]
  /\ UNCHANGED <<apiKey, hits, passed, store, clock, out, widget>>

\* chat.js:11-17  the middleware has its store count the request and keeps
\* the count returned
LimiterIncrement(r) ==
  /\ req[r].pc = "limiter"
  /\ hits' = MemoryStoreIncrement(hits, req[r].ip)
  /\ req' = [req EXCEPT ![r] = [@ EXCEPT !.pc = "decide", !.totalHits = hits'[req[r].ip]]]
  /\ UNCHANGED <<apiKey, passed, store, clock, out, widget>>

\* chat.js:13-16  the middleware answers 429 or calls the next middleware
LimiterDecide(r) ==
  /\ req[r].pc = "decide"
  /\ \/ /\ LimiterBlocks(req[r].totalHits)
        /\ req' = [req EXCEPT ![r] = [@ EXCEPT !.pc = "done", !.status = 429,
                                                !.limited = TRUE]]
        /\ UNCHANGED passed
     \/ /\ ~LimiterBlocks(req[r].totalHits)
        /\ req' = [req EXCEPT ![r] = [@ EXCEPT !.pc = "validate"]]
        /\ passed' = [passed EXCEPT ![req[r].ip] = @ + 1]
  /\ UNCHANGED <<apiKey, hits, store, clock, out, widget>>

InitConc ==
  /\ apiKey = TRUE
  /\ hits = [ip \in Clients |-> IF ip \in IPs THEN StoreStartHits ELSE 0]
  /\ passed = [ip \in Clients |-> IF ip \in IPs THEN StoreStartHits ELSE 0]
  /\ store = <<>>
  /\ clock = 1
  /\ req = [r \in ConcReqs |-> IdleReq]
  /\ out = NoAnswer
  /\ widget = ClosedWidget

NextConc ==
  \/ \E r \in ConcReqs : LimiterArrive(r, IPs, ConcBodies)
  \/ \E r \in ConcReqs : LimiterIncrement(r)
  \/ \E r \in ConcReqs : LimiterDecide(r)
  \/ \E r \in ConcReqs : ValidateChatMessage(r)
  \/ \E r \in ConcReqs : GetConversationHistory(r)
  \/ \E r \in ConcReqs : OpenAICompletion(r)
  \/ \E r \in ConcReqs : SaveConversation(r)

SpecConc == InitConc /\ [][NextConc]_vars

----------------------------------------------------------------------------
(* widget/src/ChatWindow.jsx and ChatBubble.jsx.  A confidence is counted   *)
(* in hundredths: 80 stands for 0.8.                                        *)

\* messages the list of one chat window may reach before a send
MaxWidgetMessages == 4

Conf(value) == [defined |-> TRUE, value |-> value]
\* the response carries no confidence
NoConfidence == [defined |-> FALSE, value |-> 0]

\* data.confidence of the responses the widget gets
Confidences == {NoConfidence, Conf(-20), Conf(0), Conf(80), Conf(100), Conf(170)}

\* data.type of the responses the widget gets ("" when it has none)
ResponseTypes == {"", "faq"}

WidgetMessage(id, isUser, type, confidence) ==
  [id |-> id, isUser |-> isUser, type |-> type, confidence |-> confidence]

\* ChatWindow.jsx:7-13  the greeting the list starts with
Greeting == WidgetMessage(1, FALSE, "greeting", NoConfidence)

\* ChatWindow.jsx:70  confidence: data.confidence
AttachedConfidence(confidence) == confidence

\* ChatWindow.jsx:64-71  botMessage: messages is the list the component was
\* rendered with when the send began, seen its length
BotMessage(seen, type, confidence) ==
  WidgetMessage(seen + 2, FALSE, IF type # "" THEN type ELSE "bot",
                AttachedConfidence(confidence))

\* ChatWindow.jsx:5-18  the component mounts
OpenWidget ==
  /\ widget = ClosedWidget
  /\ widget' = [ClosedWidget EXCEPT !.messages = <<Greeting>>]
  /\ UNCHANGED <<apiKey, hits, passed, store, clock, req, out>>

\* ChatWindow.jsx:29-56  sendMessage with a text that is not blank, up to the
\* await of fetch; the input is disabled while isLoading (ChatWindow.jsx:213)
SendMessage ==
  /\ widget.messages # <<>>
  /\ ~widget.isLoading
  /\ Len(widget.messages) <= MaxWidgetMessages
  /\ widget' = [messages |-> Append(widget.messages,
                               WidgetMessage(Len(widget.messages) + 1, TRUE, "user",
                                             NoConfidence)),
                isLoading |-> TRUE, inFlight |-> TRUE,
                seen |-> Len(widget.messages)]
  /\ UNCHANGED <<apiKey, hits, passed, store, clock, req, out>>

\* ChatWindow.jsx:58-78, 93-95  the response is ok: the bot message is added
ReplyArrives(type, confidence) ==
  /\ widget.inFlight
  /\ widget' = [widget EXCEPT
       !.messages = Append(@, BotMessage(widget.seen, type, confidence)),
       !.isLoading = FALSE, !.inFlight = FALSE]
  /\ UNCHANGED <<apiKey, hits, passed, store, clock, req, out>>

\* ChatWindow.jsx:80-95  fetch failed or the response is not ok: the error
\* message is added
ErrorArrives ==
  /\ widget.inFlight
  /\ widget' = [widget EXCEPT
       !.messages = Append(@, WidgetMessage(widget.seen + 2, FALSE, "error",
                                            NoConfidence)),
       !.isLoading = FALSE, !.inFlight = FALSE]
  /\ UNCHANGED <<apiKey, hits, passed, store, clock, req, out>>

\* ChatWindow.jsx:122-133  clearConversation: its button is never disabled
ClearConversation ==
  /\ widget.messages # <<>>
  /\ widget' = [widget EXCEPT !.messages = <<Greeting>>]
  /\ UNCHANGED <<apiKey, hits, passed, store, clock, req, out>>

NextWidget ==
  \/ OpenWidget
  \/ SendMessage
  \/ \E type \in ResponseTypes, confidence \in Confidences : ReplyArrives(type, confidence)
  \/ ErrorArrives
  \/ ClearConversation

SpecWidget == Init /\ [][NextWidget]_vars

----------------------------------------------------------------------------
(* The provider client step by step.  OpenAICompletion is the end of the    *)
(* call of openai.chat.completions.create as the handler sees it; inside    *)
(* the call the client sends a request to the provider and, when that       *)
(* request fails in a way it takes for transient, sends it again.           *)

\* openaiService.js:5-7  new OpenAI({ apiKey }): maxRetries is not set, so
\* the client repeats a failed request, 2 times at most
MaxRetries == 2

\* the failures the client repeats a request for: rate limiting (429) and
\* server errors (500 and above); retried counts the repeats so far
ShouldRetry(code, retried) ==
  /\ code \in {"rate_limit_exceeded", "server_error"}
  /\ retried < MaxRetries

\* openaiService.js:75-83  inside create: a request to the provider failed
\* and the client sends it again
ClientRetry(r) ==
  /\ req[r].pc = "provider"
  /\ \E code \in ProviderErrorCodes :
       /\ ShouldRetry(code, req[r].retried)
       /\ req' = [req EXCEPT ![r] = [@ EXCEPT !.retried = @ + 1]]
  /\ UNCHANGED <<apiKey, hits, passed, store, clock, out, widget>>

RetryBodies == { Body(T(1, 2, 1, "hey"), SessionA, NoContext) }

NextRetry ==
  \/ \E r \in Reqs : ChatLimiter(r, IPs, RetryBodies)
  \/ \E r \in Reqs : ValidateChatMessage(r)
  \/ \E r \in Reqs : GetConversationHistory(r)
  \/ \E r \in Reqs : ClientRetry(r)
  \/ \E r \in Reqs : OpenAICompletion(r)
  \/ \E r \in Reqs : SaveConversation(r)

SpecRetry == InitConc /\ [][NextRetry]_vars

----------------------------------------------------------------------------
(* POST /message and GET /history side by side, for session ids of every    *)
(* shape POST /message takes or makes.                                      *)

RetrieveBodies ==
  { Body(T(0, 1, 0, "hi"), NoSessionId, NoContext),
    Body(T(1, 2, 1, "hey"), SessionV1, NoContext),
    Body(T(0, 1, 0, "hi"), SessionBad, NoContext) }

\* the ids GET /history is asked for: the ones of the bodies and the ones
\* generateSessionId makes
RetrieveSessions ==
  {SessionV1, SessionBad} \cup {generateSessionId(r) : r \in RandomNibbles}

NextRetrieve ==
  \/ \E r \in Reqs : ChatLimiter(r, IPs, RetrieveBodies)
  \/ \E r \in Reqs : ValidateChatMessage(r)
  \/ \E r \in Reqs : GetConversationHistory(r)
  \/ \E r \in Reqs : SaveConversation(r)
  \/ \E sessionId \in RetrieveSessions : HistoryRoute(sessionId)

SpecRetrieve == InitStore /\ [][NextRetrieve]_vars

----------------------------------------------------------------------------
(* The handler of POST /message under fair scheduling: the validators and   *)
(* the handler's own code run to their next await, and every store call and *)
(* provider call the handler awaits returns or fails in the end.            *)

LiveBodies ==
  { Body(T(1, 2, 1, "hey"), SessionA, NoContext),
    Body(T(0, 1, 0, "hi"), NoSessionId, NoContext),
    Body(T(2, 0, 0, "blank"), SessionA, NoContext) }

NextLive ==
  \/ \E r \in Reqs : ChatLimiter(r, IPs, LiveBodies)
  \/ \E r \in Reqs : ValidateChatMessage(r)
  \/ \E r \in Reqs : GetConversationHistory(r)
  \/ \E r \in Reqs : ClientRetry(r)
  \/ \E r \in Reqs : OpenAICompletion(r)
  \/ \E r \in Reqs : SaveConversation(r)

SpecLive ==
  /\ InitConc
  /\ [][NextLive]_vars
  /\ \A r \in Reqs :
       /\ WF_vars(ValidateChatMessage(r))
       /\ WF_vars(GetConversationHistory(r))
       /\ WF_vars(OpenAICompletion(r))
       /\ WF_vars(SaveConversation(r))

----------------------------------------------------------------------------
(* Clients whose requests all fail validation: the limiter and the          *)
(* validators alone.                                                        *)

InvalidBodies ==
  { Body(T(2, 0, 0, "blank"), SessionA, NoContext),
    Body(T(0, MessageMaxLen + 1, 0, "toolong"), NoSessionId, NoContext),
    Body(T(0, 1, 0, "hi"), SessionBad, NoContext) }

NextReject ==
  \/ \E r \in Reqs : ChatLimiter(r, Clients, InvalidBodies)
  \/ \E ip \in Clients : WindowReset(ip)
  \/ \E r \in Reqs : ValidateChatMessage(r)

SpecReject == Init /\ [][NextReject]_vars

----------------------------------------------------------------------------
(* Sanity of the model *)

\* the table is in createdAt order and createdAt identifies a row
StoreSorted ==
  \A i, j \in 1..Len(store) : i < j => store[i].createdAt < store[j].createdAt

TypeOK ==
  /\ apiKey \in BOOLEAN
  /\ \A ip \in Clients : hits[ip] \in 0..(LimiterMax + HitsOverflow) /\ passed[ip] \in 0..hits[ip]
  /\ clock \in 1..(MaxTurns + 1)
  /\ \A r \in Reqs :
       /\ req[r].pc \in {"idle", "validate", "history", "provider", "save", "done"}
       /\ req[r].status \in {0, 200, 400, 429, 500, 503}
       /\ (req[r].status # 0) = (req[r].pc = "done")

----------------------------------------------------------------------------
(* Claims *)

Done(r) == req[r].pc = "done"

\* the row a request created, looked up by its createdAt
RowsAt(createdAt) == {i \in 1..Len(store) : store[i].createdAt = createdAt}

\* C1: per client address at most 10 requests of one window pass the
\* limiter (exactly min(hits, 10) of them), and a request the limiter
\* rejects is answered 429 without a history fetch, a provider call or a
\* persisted Turn.
C1_LimiterCeiling ==
  /\ \A ip \in Clients : passed[ip] = Min(hits[ip], LimiterMax)
  /\ \A r \in Reqs :
       req[r].limited =>
         /\ Done(r) /\ req[r].status = 429
         /\ req[r].historyFetches = 0 /\ req[r].providerCalls = 0
         /\ req[r].saveAttempts = 0 /\ req[r].created = 0

\* the eleventh request of one client has been rejected in a window in
\* which another client still has requests left
C1_Witness ==
  \E r \in Reqs, other \in Clients :
    /\ req[r].limited /\ hits[req[r].ip] = LimiterMax + 1 /\ passed[req[r].ip] = LimiterMax
    /\ other # req[r].ip /\ hits[other] \in 1..(LimiterMax - 1)

\* C2: a provider failure with code insufficient_quota is answered 503, one
\* with code rate_limit_exceeded is answered 429, and neither sends a reply
\* text.
C2_ClassifiedFailureStatus ==
  \A r \in Reqs :
    Done(r) =>
      /\ (req[r].providerError = "insufficient_quota" =>
            req[r].status = 503 /\ req[r].reply = NoReply)
      /\ (req[r].providerError = "rate_limit_exceeded" =>
            req[r].status = 429 /\ req[r].reply = NoReply)

\* C3: when saveConversation raises after the reply was computed, the
\* request is still answered 200 with that reply.
C3_PersistenceBestEffort ==
  \A r \in Reqs :
    (Done(r) /\ req[r].saveFailed) =>
      /\ req[r].status = 200
      /\ req[r].reply.response = req[r].aiResponse.text

\* the min(N, 10) most recently created rows of a session, oldest first
MostRecentTurns(rows, sessionId) ==
  LET found == SessionRows(rows, sessionId)
      n == Len(found)
      k == Min(n, HistoryWindow)
  IN  [i \in 1..k |-> HistoryEntry(found[n - k + i])]

\* C4: the history turns placed in the prompt are exactly the min(N, 10)
\* most recently created turns of the session, in ascending creation order,
\* whatever the number N of stored turns.
C4_PromptHistoryMostRecent ==
  [][\A r \in Reqs :
       (req[r].pc = "history" /\ req'[r].pc = "provider") =>
         req'[r].recentHistory = MostRecentTurns(store, req[r].body.sessionId)]_vars

\* the parts of a prompt the claims C5 speak of
HistoryPart(r) ==
  LET m == req[r].messages
      h == req[r].recentHistory
  IN  /\ Len(m) >= 2 * Len(h) + 2
      /\ m[1] = Msg("system", SYSTEM_PROMPT)
      /\ Cardinality({i \in 1..Len(m) : m[i].content = SYSTEM_PROMPT}) = 1
      /\ \A i \in 1..Len(h) :
           /\ m[2 * i] = Msg("user", h[i].userMessage)
           /\ m[2 * i + 1] = Msg("assistant", h[i].aiResponse)
      /\ \A i, j \in 1..Len(h) : i < j => h[i].timestamp < h[j].timestamp

\* the context notes the request's context asks for, page before user agent
ContextNotes(r) ==
  LET c == req[r].body.context
  IN  (IF c.page.tag # "undefined" /\ StrLen(c.page) > 0
         THEN <<Msg("system", PageNote(c.page))>> ELSE <<>>)
      \o (IF c.userAgent.tag # "undefined" /\ StrLen(c.userAgent) > 0
            THEN <<Msg("system", AgentNote(c.userAgent))>> ELSE <<>>)

\* C5 as claimed: system policy, history pairs oldest first, context notes,
\* and the new user message as the last element.
C5_UserMessageLast ==
  \A r \in Reqs :
    req[r].pc = "provider" =>
      LET m == req[r].messages
          k == 2 * Len(req[r].recentHistory) + 1
      IN  /\ HistoryPart(r)
          /\ m[Len(m)] = Msg("user", req[r].body.message)
          /\ SubSeq(m, k + 1, Len(m) - 1) = ContextNotes(r)

\* C5 as amended: system policy, history pairs oldest first, the new user
\* message, and the context notes (page, then user agent) as the last
\* elements.
C5_ContextNotesLast ==
  \A r \in Reqs :
    req[r].pc = "provider" =>
      LET m == req[r].messages
          k == 2 * Len(req[r].recentHistory) + 1
      IN  /\ HistoryPart(r)
          /\ m[k + 1] = Msg("user", req[r].body.message)
          /\ SubSeq(m, k + 2, Len(m)) = ContextNotes(r)

\* a prompt with two history turns and both context notes
C5_Witness ==
  \E r \in Reqs :
    /\ req[r].pc = "provider"
    /\ Len(req[r].recentHistory) = 2
    /\ Len(ContextNotes(r)) = 2
    /\ Len(req[r].messages) = 8

\* the provider call of request r failed with a code generateResponse does
\* not classify
Unclassified(r) ==
  req[r].providerError \notin {"none", "insufficient_quota", "rate_limit_exceeded", "invalid_api_key"}

\* C6 as claimed: an unclassified provider failure is answered 200 with the
\* fixed apologetic text, model "fallback" and zero usage, and a Turn of
\* type "error" is persisted for the request.
C6_FallbackTurnTypedError ==
  \A r \in Reqs :
    (Done(r) /\ Unclassified(r)) =>
      /\ req[r].status = 200
      /\ req[r].reply.response = T(0, FallbackLen, 0, "apology")
      /\ req[r].reply.model = "fallback"
      /\ req[r].reply.usage = ZeroUsage
      /\ \E i \in RowsAt(req[r].turnAt) :
           "type" \in DOMAIN store[i] /\ store[i]["type"] = "error"

\* C6 as amended: after an unclassified provider failure generateResponse
\* returns the fixed apologetic text with model "fallback" and zero usage;
\* the request is answered 200 with exactly that once its Turn is persisted,
\* the Turn carrying the text, model "fallback" and zero token usage and no
\* type field; when persisting fails the request is answered 500 and no
\* Turn exists for it.
C6_FallbackTurnPersisted ==
  \A r \in Reqs :
    Unclassified(r) =>
      /\ req[r].pc \in {"save", "done"}
      /\ req[r].aiResponse.text = T(0, FallbackLen, 0, "apology")
      /\ req[r].aiResponse.model = "fallback"
      /\ req[r].aiResponse.usage.prompt_tokens = 0
      /\ req[r].aiResponse.usage.completion_tokens = 0
      /\ req[r].aiResponse.usage.total_tokens = 0
      /\ (Done(r) /\ ~req[r].saveFailed) =>
           /\ req[r].status = 200
           /\ req[r].reply.response = req[r].aiResponse.text
           /\ req[r].reply.model = "fallback"
           /\ req[r].reply.usage = req[r].aiResponse.usage
           /\ req[r].created = 1
           /\ \E i \in RowsAt(req[r].turnAt) :
                /\ store[i].aiResponse = req[r].aiResponse.text
                /\ store[i].model = "fallback"
                /\ store[i].tokens = req[r].aiResponse.usage
                /\ store[i].userMessage = req[r].body.message
                /\ "type" \notin DOMAIN store[i]
      /\ (Done(r) /\ req[r].saveFailed) =>
           req[r].status = 500 /\ req[r].created = 0

\* a request answered 200 with the fallback after the provider failed
C6_Witness ==
  \E r \in Reqs :
    /\ Done(r) /\ Unclassified(r) /\ req[r].status = 200
    /\ RowsAt(req[r].turnAt) # {}

\* C7: without credentials generateResponse ends in a configuration error:
\* not by returning a reply (completion or fallback), and not with the
\* error a runtime invalid_api_key failure ends in.
C7_ConfigurationErrorDistinct ==
  \A r \in Reqs :
    (~apiKey /\ req[r].generated.kind # "none") =>
      /\ req[r].generated.kind = "throw"
      /\ req[r].generated # GenerateCatch(Err("provider", "invalid_api_key"))

\* C8: a request answered 200 created exactly one Turn, which carries the
\* request's userMessage and the reply text returned; no request creates
\* more than one Turn.
C8_OneTurnPerReply ==
  \A r \in Reqs :
    /\ req[r].created <= 1
    /\ req[r].saveAttempts <= 1
    /\ req[r].status = 200 =>
         /\ req[r].created = 1
         /\ Cardinality(RowsAt(req[r].turnAt)) = 1
         /\ \A i \in RowsAt(req[r].turnAt) :
              /\ store[i].userMessage = req[r].body.message
              /\ store[i].aiResponse = req[r].reply.response
              /\ store[i].sessionId = req[r].reply.sessionId
    /\ req[r].status # 200 => req[r].created = 0

\* a 200 reply of the provider's own text with its Turn in the table
C8_Witness ==
  \E r \in Reqs :
    /\ req[r].status = 200 /\ req[r].reply.model # "fallback"
    /\ Cardinality(RowsAt(req[r].turnAt)) = 1
    /\ Len(store) = 2

\* C9: a request whose sessionId is present but not of UUID version-4 shape
\* is answered 400, with no provider call and no persisted Turn.
C9_NonV4SessionRejected ==
  \A r \in Reqs :
    (/\ ~req[r].limited
     /\ req[r].body.sessionId # NoSessionId
     /\ ~(/\ req[r].body.sessionId.hex
          /\ req[r].body.sessionId.ver = 4
          /\ req[r].body.sessionId.variant \in {8, 9, 10, 11})) =>
      /\ Done(r) => req[r].status = 400
      /\ req[r].providerCalls = 0
      /\ req[r].created = 0

\* the ways a body fails validation C10 names: the message empty after
\* trimming or longer than 1000 characters after trimming, a sessionId that
\* is no UUID, a context that is no object
C10_FailsValidation(body) ==
  \/ body.message.core = 0
  \/ body.message.core > 1000
  \/ (body.sessionId # NoSessionId /\ ~body.sessionId.hex)
  \/ body.context.kind \notin {"undefined", "object"}

\* C10: a request that fails validation is answered 400 at once: no history
\* fetch, no provider call and no persisted Turn happen for it.
C10_InvalidRejectedEarly ==
  \A r \in Reqs :
    (/\ req[r].pc \notin {"idle", "validate"}
     /\ ~req[r].limited
     /\ C10_FailsValidation(req[r].body)) =>
      /\ Done(r) /\ req[r].status = 400
      /\ req[r].historyFetches = 0
      /\ req[r].providerCalls = 0
      /\ req[r].saveAttempts = 0
      /\ req[r].created = 0
      /\ req[r].reply = NoReply

\* an over-long message answered 400
C10_Witness ==
  \E r \in Reqs :
    /\ Done(r) /\ req[r].status = 400
    /\ req[r].body.message.core = MessageMaxLen + 1

----------------------------------------------------------------------------
(* Session id of the reply and of the Turn *)

\* C11: when the request carries no sessionId a UUID-v4 session id is
\* generated; the sessionId of the 200 response is the sessionId of the Turn
\* persisted for the request; when the request supplies a sessionId both are
\* the supplied value.
C11_SessionIdOfReplyAndTurn ==
  \A r \in Reqs :
    (Done(r) /\ req[r].status = 200) =>
      /\ \A i \in RowsAt(req[r].turnAt) : store[i].sessionId = req[r].reply.sessionId
      /\ RowsAt(req[r].turnAt) # {}
      /\ req[r].body.sessionId = NoSessionId => isValidUUID(req[r].reply.sessionId)
      /\ req[r].body.sessionId # NoSessionId => req[r].reply.sessionId = req[r].body.sessionId

\* a 200 reply to a request without sessionId, its Turn in the table
C11_Witness ==
  \E r \in Reqs :
    /\ Done(r) /\ req[r].status = 200
    /\ req[r].body.sessionId = NoSessionId
    /\ req[r].reply.sessionId = generateSessionId(15)
    /\ \E i \in RowsAt(req[r].turnAt) : store[i].sessionId = generateSessionId(15)

----------------------------------------------------------------------------
(* Feedback, history and retention *)

\* the index in the table of the most recently created row of a session
LatestRow(sessionId) ==
  CHOOSE i \in 1..Len(store) :
    /\ store[i].sessionId = sessionId
    /\ \A j \in 1..Len(store) :
         store[j].sessionId = sessionId => store[j].createdAt <= store[i].createdAt

\* C12: updateConversationFeedback on a session with two or more turns
\* changes rating and feedback only on the most recently created turn of
\* the session; its earlier turns and the turns of other sessions are
\* unchanged.
C12_FeedbackOnLatestTurnOnly ==
  [][\A rating \in Ratings, feedback \in Feedbacks :
       (/\ out'.op = "update"
        /\ UpdateConversationFeedback(out'.sessionId, rating, feedback)
        /\ Len(SessionRows(store, out'.sessionId)) >= 2) =>
         /\ Len(store') = Len(store)
         /\ \A i \in 1..Len(store) :
              i # LatestRow(out'.sessionId) => store'[i] = store[i]]_vars

\* C13: POST /feedback with a valid body that names a session without
\* persisted turns is not answered 200; it is answered 404 or 500.
C13_FeedbackUnknownSessionRejected ==
  [][\A body \in FeedbackBodies :
       (/\ out'.op = "feedback"
        /\ FeedbackRoute(body)
        /\ validateFeedback(body)
        /\ SessionRows(store, body.sessionId) = <<>>) =>
         out'.status \in {404, 500}]_vars

\* C14: updateConversationFeedback, called with values the model accepts on
\* a session without turns, fails with the not-found error (or with the
\* statement's own failure) and leaves the table unchanged.
C14_FeedbackNotFound ==
  [][\A rating \in Ratings, feedback \in Feedbacks :
       (/\ out'.op = "update"
        /\ UpdateConversationFeedback(out'.sessionId, rating, feedback)
        /\ SessionRows(store, out'.sessionId) = <<>>) =>
         /\ store' = store
         /\ out'.pc = "done"
         /\ out'.error # "none"
         /\ (UpdateValidates(UpdateData(rating, feedback)) /\ out'.error # "database")
              => out'.error = "Conversation not found"]_vars

\* the operation failed with not-found on a session without turns while the
\* table holds a turn of another session
C14_Witness ==
  /\ out.op = "update"
  /\ out.error = "Conversation not found"
  /\ SessionRows(store, out.sessionId) = <<>>
  /\ store # <<>>

\* the entries of a history are in non-decreasing createdAt order
OldestFirst(history) ==
  \A i, j \in 1..Len(history) : i < j => history[i].timestamp <= history[j].timestamp

\* C15: the history of a session, as GET /history/{sessionId} answers it and
\* as the chat handler gets it, lists the turns in non-decreasing createdAt
\* order.
C15_HistoryOldestFirst ==
  /\ (out.op = "history" /\ out.status = 200) => OldestFirst(out.messages)
  /\ \A r \in Reqs : OldestFirst(req[r].conversationHistory)

\* a history answer with two turns
C15_Witness ==
  /\ out.op = "history"
  /\ out.status = 200
  /\ Len(out.messages) >= 2
  /\ out.messages[1].timestamp < out.messages[2].timestamp

\* C16: every Turn persisted by a 200 reply is returned by a later history
\* call for its session, with userMessage and aiResponse equal to the
\* persisted text, which is the reply text returned, as long as the Turn is
\* still in the table.
C16_PersistedTurnInHistory ==
  \A r \in Reqs :
    (Done(r) /\ req[r].status = 200 /\ RowsAt(req[r].turnAt) # {}) =>
      LET history == getConversationHistory(store, req[r].reply.sessionId, HistoryLimit)
      IN  \E i \in 1..Len(history) :
            /\ history[i].timestamp = req[r].turnAt
            /\ history[i].userMessage = req[r].body.message
            /\ history[i].aiResponse = req[r].reply.response

\* the shape C17 names: a hexadecimal 8-4-4-4-12 id with version digit 4 and
\* an RFC 4122 variant digit
C17_V4Shaped(sessionId) ==
  sessionId.hex /\ sessionId.ver = 4 /\ sessionId.variant \in {8, 9, 10, 11}

\* C17: GET /history/{sessionId} answers 400 without querying the table when
\* sessionId is not UUID-v4 shaped; for a well-formed sessionId without
\* turns it answers 200 with an empty messages list (500 only when the query
\* itself fails); in every 200 answer count is the number of messages.
C17_HistoryRouteAnswers ==
  [][\A sessionId \in StoreSessions :
       (out'.op = "history" /\ HistoryRoute(sessionId)) =>
         /\ ~C17_V4Shaped(sessionId) => (out'.status = 400 /\ ~out'.queried)
         /\ (C17_V4Shaped(sessionId) /\ SessionRows(store, sessionId) = <<>>) =>
              \/ out'.status = 200 /\ out'.messages = <<>> /\ out'.count = 0
              \/ out'.status = 500 /\ out'.error = "database"
         /\ out'.status = 200 => out'.count = Len(out'.messages)]_vars

\* a version-1 session id answered 400 while the table holds turns
C17_Witness ==
  /\ out.op = "history"
  /\ out.sessionId = SessionV1
  /\ out.status = 400
  /\ ~out.queried
  /\ store # <<>>

\* C18: in every reachable table every Turn's rating is absent (0 here) or
\* an integer from 1 to 5, and its feedback is absent or at most 500
\* characters long, whatever chat, feedback and retention operations ran.
C18_RatingAndFeedbackInRange ==
  \A i \in 1..Len(store) :
    /\ store[i].rating = 0 \/ store[i].rating \in 1..5
    /\ store[i].feedback = Undefined \/ StrLen(store[i].feedback) <= 500

\* a Turn that got the highest rating and the longest feedback text, after a
\* call with values out of range was refused
C18_Witness ==
  /\ \E i \in 1..Len(store) :
       store[i].rating = 5 /\ StrLen(store[i].feedback) = 500
  /\ out.op = "update"
  /\ out.error = "validation"

\* C19: every persisted Turn has a userMessage of 1 to 1000 characters and
\* an aiResponse of 1 to 2000 characters, also when the provider returned an
\* empty or an over-long text.
C19_PersistedTextsInRange ==
  \A i \in 1..Len(store) :
    /\ store[i].userMessage.tag # "undefined"
    /\ StrLen(store[i].userMessage) \in 1..1000
    /\ store[i].aiResponse.tag # "undefined"
    /\ StrLen(store[i].aiResponse) \in 1..2000

\* the provider returned an over-long text, the save was refused, and the
\* table holds a Turn of an earlier request
C19_Witness ==
  \E r \in Reqs :
    /\ Done(r)
    /\ req[r].providerCalls = 1
    /\ StrLen(req[r].aiResponse.text) > 2000
    /\ req[r].saveFailed
    /\ req[r].status = 500
    /\ store # <<>>

\* the fields of a Turn that C20 says never change
Persisted(turn) ==
  [sessionId |-> turn.sessionId, userMessage |-> turn.userMessage,
   aiResponse |-> turn.aiResponse, userIp |-> turn.userIp,
   context |-> turn.context, model |-> turn.model, tokens |-> turn.tokens,
   createdAt |-> turn.createdAt]

\* C20: a persisted Turn's userMessage, aiResponse, sessionId, client
\* address, context, model and token usage never change (only rating and
\* feedback may), and a Turn leaves the table only through the retention
\* cleanup.
C20_TurnsImmutable ==
  [][\A i \in 1..Len(store) :
       LET still == {j \in 1..Len(store') : store'[j].createdAt = store[i].createdAt}
       IN  /\ still = {} =>
                /\ out'.op = "cleanup"
                /\ \E daysOld \in CleanupAges : CleanupOldConversations(daysOld)
           /\ \A j \in still : Persisted(store'[j]) = Persisted(store[i])]_vars

\* a rated Turn still in the table after a cleanup that deleted another
C20_Witness ==
  /\ out.op = "cleanup"
  /\ out.count >= 1
  /\ \E i \in 1..Len(store) : store[i].rating = 5

----------------------------------------------------------------------------
(* Retention, prompt window, limiter order, session ids across routes *)

\* the rows of the table created strictly before a time
CreatedBefore(cutoff) == {i \in 1..Len(store) : store[i].createdAt < cutoff}

\* C21: cleanupOldConversations(daysOld) deletes exactly the turns created
\* strictly before now minus daysOld, returns the number deleted and leaves
\* every turn at or after the cutoff unchanged.
C21_CleanupExact ==
  [][\A daysOld \in CleanupAges :
       (/\ out'.op = "cleanup"
        /\ out'.error = "none"
        /\ CleanupOldConversations(daysOld)) =>
         LET old == CreatedBefore(clock - daysOld)
         IN  /\ out'.count = Cardinality(old)
             /\ Len(store') = Len(store) - Cardinality(old)
             /\ \A i \in 1..Len(store) :
                  IF i \in old
                  THEN \A j \in 1..Len(store') : store'[j].createdAt # store[i].createdAt
                  ELSE \E j \in 1..Len(store') : store'[j] = store[i]]_vars

\* a cleanup deleted a turn and kept the turn created exactly at its cutoff
C21_Witness ==
  /\ out.op = "cleanup"
  /\ out.error = "none"
  /\ out.count >= 1
  /\ \E i \in 1..Len(store) : store[i].createdAt = clock - 1

\* the messages of a prompt that have the given role
OfRole(messages, role) == {i \in 1..Len(messages) : messages[i].role = role}

\* C22: the prompt sent to the provider never holds more than 10 prior turns
\* (20 history messages: 10 of the user before the new one, 10 of the
\* assistant), however many turns the session has.
C22_PromptWindow ==
  \A r \in Reqs :
    /\ Len(req[r].recentHistory) <= 10
    /\ Cardinality(OfRole(req[r].messages, "assistant")) <= 10
    /\ Cardinality(OfRole(req[r].messages, "user")) <= 10 + 1

\* a prompt with 10 prior turns composed for a session of 50 or more turns
C22_Witness ==
  \E r \in Reqs :
    /\ req[r].pc = "provider"
    /\ Len(req[r].conversationHistory) >= 50
    /\ Cardinality(OfRole(req[r].messages, "assistant")) = 10
    /\ Len(SessionRows(store, req[r].body.sessionId)) >= 50

\* C23: for any interleaving of simultaneous requests of one client no
\* counter update of the limiter is lost: two requests never get the same
\* count, the counter is never behind a count it handed out, and at most 10
\* requests of the client pass within the window.
C23_LimiterNoLostUpdate ==
  /\ \A ip \in Clients : passed[ip] <= 10
  /\ \A r \in DOMAIN req :
       req[r].pc \notin {"idle", "limiter"} =>
         /\ req[r].totalHits >= 1
         /\ req[r].totalHits <= hits[req[r].ip]
         /\ req[r].pc # "decide" => req[r].limited = (req[r].totalHits > 10)
  /\ \A r1, r2 \in DOMAIN req :
       (/\ r1 # r2
        /\ req[r1].pc \notin {"idle", "limiter"}
        /\ req[r2].pc \notin {"idle", "limiter"}
        /\ req[r1].ip = req[r2].ip) =>
         req[r1].totalHits # req[r2].totalHits

\* two requests counted before either was decided, one at the limit, one
\* over it
C23_Witness ==
  \E r1, r2 \in DOMAIN req :
    /\ req[r1].pc = "decide" /\ req[r1].totalHits = 10
    /\ req[r2].pc = "decide" /\ req[r2].totalHits = 11
    /\ req[r1].ip = req[r2].ip

----------------------------------------------------------------------------
(* The widget's message list *)

\* C24: a confidence attached to a reply message of the widget lies within
\* [0, 1] (0..100 hundredths): a value outside that range is clamped before
\* it is attached.
C24_ConfidenceInUnitRange ==
  \A i \in 1..Len(widget.messages) :
    widget.messages[i].confidence.defined =>
      /\ widget.messages[i].confidence.value >= 0
      /\ widget.messages[i].confidence.value <= 100

\* C25: a request makes at most one call to the provider: the handler calls
\* the client once, and no provider request that failed is sent again.
C25_AtMostOneProviderCall ==
  \A r \in DOMAIN req :
    /\ req[r].providerCalls <= 1
    /\ req[r].retried = 0

\* C26: a sessionId POST /message took in a request or gave in a 200 answer
\* (the sessionId of a persisted Turn is one) is not answered 400 by
\* GET /history.
C26_AcceptedSessionIdRetrievable ==
  (/\ out.op = "history"
   /\ \/ \E i \in 1..Len(store) : store[i].sessionId = out.sessionId
      \/ \E r \in Reqs : /\ Done(r) /\ req[r].status = 200
                         /\ req[r].reply.sessionId = out.sessionId) =>
    out.status # 400

\* C27: with requests of one session interleaved, a step adds as many Turns
\* to the table as requests are answered 200 in it and leaves the Turns
\* already there as they are; every request answered 200 has a Turn of its
\* own, with its own userMessage and reply.
C27_OwnTurnPerAnswer ==
  [][/\ Len(store') =
          Len(store) + Cardinality({r \in ConcReqs : /\ req'[r].status = 200
                                                     /\ req[r].status # 200})
     /\ \A i \in 1..Len(store) : store'[i] = store[i]
     /\ \A r \in ConcReqs :
          req'[r].status = 200 =>
            \E i \in 1..Len(store') :
              /\ store'[i].createdAt = req'[r].turnAt
              /\ store'[i].sessionId = req'[r].reply.sessionId
              /\ store'[i].userMessage = Trim(req'[r].body.message)
              /\ store'[i].aiResponse = req'[r].reply.response
              /\ \A q \in ConcReqs \ {r} :
                   req'[q].status = 200 => req'[q].turnAt # req'[r].turnAt]_vars

\* both requests of the session were in flight together, both are answered
\* 200 and the session has their two Turns
C27_Witness ==
  /\ \A r \in ConcReqs : req[r].status = 200 /\ req[r].body.sessionId = SessionA
  /\ req[1].body.message # req[2].body.message
  /\ req[1].historyFetches = 1 /\ req[1].conversationHistory = <<>>
  /\ req[2].historyFetches = 1 /\ req[2].conversationHistory = <<>>
  /\ Len(SessionRows(store, SessionA)) = 2

\* the statuses C28 names
C28_Statuses == {200, 400, 429, 500, 503}

\* C28: a request that passed the limiter is answered in the end, with one of
\* the statuses 200, 400, 429, 500, 503; the answer is sent once (the status
\* is set in the step that ends the handler and not again), and an answered
\* handler does nothing more: its slot changes only when a new request
\* arrives, and the table changes only in the save step of a handler that
\* has not answered.
C28_OneAnswerThenNothing ==
  /\ \A r \in Reqs :
       [](req[r].pc = "validate" => <>(Done(r) /\ req[r].status \in C28_Statuses))
  /\ [][\A r \in Reqs :
          /\ (~Done(r) /\ req'[r] # req[r]) =>
               /\ req[r].status = 0
               /\ req'[r].status # 0 <=> Done(r)'
          /\ (Done(r) /\ req'[r] # req[r]) =>
               /\ ChatLimiter(r, IPs, LiveBodies)
               /\ store' = store
          /\ store' # store => (req[r].pc = "save" /\ Done(r)' /\ req'[r].status = 200)
          /\ req'[r].providerCalls > req[r].providerCalls => req[r].pc = "provider"]_vars

\* a request was answered 500 after its provider call and its failed save,
\* and one was answered 200 before it
C28_Witness ==
  \E r \in Reqs :
    /\ Done(r) /\ req[r].status = 500
    /\ req[r].providerCalls = 1 /\ req[r].saveFailed
    /\ store # <<>>

\* C29: the limiter is the first thing a request meets and counts it whatever
\* becomes of it: an arriving request adds one to its client's count, is
\* answered 429 at once when the client already has 10 requests in the
\* window (requests answered 400 among them) and goes to the validators
\* otherwise; the validators' 400 takes nothing off the count.
C29_CountedWhateverTheOutcome ==
  [][\A r \in Reqs :
       /\ (req[r].pc \in {"idle", "done"} /\ req'[r] # req[r]) =>
            LET ip == req'[r].ip
            IN  /\ hits'[ip] = hits[ip] + 1
                /\ hits[ip] >= LimiterMax =>
                     /\ Done(r)' /\ req'[r].status = 429
                     /\ req'[r].historyFetches = 0 /\ req'[r].providerCalls = 0
                /\ hits[ip] < LimiterMax =>
                     /\ req'[r].pc = "validate" /\ req'[r].status = 0
       /\ (req[r].pc = "validate" /\ req'[r] # req[r]) =>
            /\ hits' = hits
            /\ ~validateChatMessage(req[r].body) =>
                 Done(r)' /\ req'[r].status = 400]_vars

\* the eleventh request of a client in a window whose ten earlier requests
\* were all answered 400: it is answered 429, and nothing was fetched, sent
\* to the provider or persisted
C29_Witness ==
  \E r \in Reqs :
    /\ Done(r) /\ req[r].status = 429
    /\ hits[req[r].ip] = LimiterMax + 1
    /\ passed[req[r].ip] = LimiterMax
    /\ store = <<>>

\* C30: the messages of the chat window's list have pairwise distinct ids.
C30_MessageIdsDistinct ==
  \A i, j \in 1..Len(widget.messages) :
    i # j => widget.messages[i].id # widget.messages[j].id

====
